---- MODULE Spec2Model ----
(***************************************************************************)
(* Model of the discount engine of playtorium-discount (src/discount.ts,   *)
(* with the campaign and item shapes of schema.ts).                        *)
(*                                                                         *)
(* Money is a fixed-point integer: one unit is 1/500 of a satang (1/100    *)
(* THB).  With the prices (whole and half satangs) and the whole-number    *)
(* percentages used here, every product and quotient the code forms        *)
(* (x * p / 100, x * 0.2) is an exact integer number of units, so the      *)
(* model computes what the code computes in exact decimal arithmetic;      *)
(* ExactArithmetic checks this.                                            *)
(***************************************************************************)
EXTENDS Integers, Sequences, FiniteSets

VARIABLES pc, cartItems, campaigns, originalTotal, currentTotal,
          appliedCampaigns, campaignsByCategory, result, error,
          argv, stdout, exit

\* the command-line process around the engine (index.ts)
cliVars == <<argv, stdout, exit>>

vars == <<pc, cartItems, campaigns, originalTotal, currentTotal,
          appliedCampaigns, campaignsByCategory, result, error,
          argv, stdout, exit>>

----------------------------------------------------------------------------
(* Units and bounds *)

Satang == 500
THB == 100 * Satang

MaxItems == 2
MaxCampaigns == 3
MaxQuantity == 2

----------------------------------------------------------------------------
(* schema.ts: enums, cart items, campaigns *)

ItemCategory == {"Clothing", "Accessories", "Electronics"}

CampaignCategory == <<"Coupon", "On Top", "Seasonal">>

\* z.number().min(0): any non-negative number, also below one satang
Prices == {0, Satang \div 2, 100 * THB}

CartCategories == {"Clothing", "Accessories"}

\* quantity is optional: an item either has no quantity field or one >= 1
CartItem ==
    [price : Prices, category : CartCategories]
    \cup [price : Prices, category : CartCategories, quantity : 1..MaxQuantity]

FixedAmountCampaign ==
    [category : {"Coupon"}, type : {"Fixed"}, amount : {1 * Satang, 150 * THB}]

PercentageCouponCampaign ==
    [category : {"Coupon"}, type : {"Percentage"}, percentage : {50}]

CategoryDiscountCampaign ==
    [category : {"On Top"}, type : {"Percentage"},
     targetCategory : {"Clothing"}, percentage : {50}]

PointsDiscountCampaign ==
    [category : {"On Top"}, type : {"Fixed"}, customerPoints : {30}]

SeasonalCampaign ==
    [category : {"Seasonal"}, type : {"Special"},
     everyXThb : {30 * THB}, discountYThb : {40 * THB}]

DiscountCampaign ==
    FixedAmountCampaign \cup PercentageCouponCampaign
    \cup CategoryDiscountCampaign \cup PointsDiscountCampaign
    \cup SeasonalCampaign

SeqsUpTo(S, n) == UNION {[1..k -> S] : k \in 0..n}

----------------------------------------------------------------------------
(* discount.ts: constants and arithmetic *)

POINTS_CAP_PERCENTAGE == 20
POINTS_TO_THB_RATIO == 1

\* the value of an unset optional: campaign?.type is undefined
Undefined == [type |-> "undefined"]

NoError == "none"

MathMin(a, b) == IF a <= b THEN a ELSE b

MathMax(a, b) == IF a >= b THEN a ELSE b

\* Math.floor(a / b) for b > 0
MathFloorDiv(a, b) == a \div b

\* Math.round(x * 100) / 100: to whole satangs, halves towards +infinity
Round2(x) == ((x + (Satang \div 2)) \div Satang) * Satang

----------------------------------------------------------------------------
(* discount.ts: the helper functions *)

\* faulty variant: the quantity is ignored
QuantityOf_Ignored(item) == 1

\* item.quantity || 1
QuantityOf(item) ==
    IF "quantity" \in DOMAIN item /\ item.quantity # 0 THEN item.quantity ELSE 1

\* cartItems.reduce((total, item) => total + item.price * quantity, 0)
RECURSIVE ReduceTotal(_, _, _)
ReduceTotal(items, i, total) ==
    IF i > Len(items) THEN total
    ELSE ReduceTotal(items, i + 1, total + (items[i].price * QuantityOf(items[i])))

calculateOriginalTotal(items) == ReduceTotal(items, 1, 0)

\* faulty variant: the items are not filtered by category
FilterCategory_All(items, targetCategory) == items

\* cartItems.filter(_ => _.category == targetCategory)
FilterCategory(items, targetCategory) ==
    SelectSeq(items, LAMBDA it : it.category = targetCategory)

EmptySlots ==
    [coupon |-> Undefined, onTop |-> Undefined, seasonal |-> Undefined,
     error |-> NoError]

\* one pass of the switch in categorizeCampaigns; every case tests `coupon`
CategorizeCase(acc, c) ==
    CASE c.category = "Coupon" ->
            IF acc.coupon # Undefined
            THEN [acc EXCEPT !.error = "Can only use one Coupon"]
            ELSE [acc EXCEPT !.coupon = c]
      [] c.category = "On Top" ->
            IF acc.coupon # Undefined
            THEN [acc EXCEPT !.error = "Can only use one On-top discount"]
            ELSE [acc EXCEPT !.onTop = c]
      [] c.category = "Seasonal" ->
            IF acc.coupon # Undefined
            THEN [acc EXCEPT !.error = "Can only use one Seasonal discount"]
            ELSE [acc EXCEPT !.seasonal = c]
      [] OTHER -> acc

\* for (const c of campaigns) { ... }; a throw leaves the loop
RECURSIVE CategorizeLoop(_, _, _)
CategorizeLoop(cs, i, acc) ==
    IF i > Len(cs) \/ acc.error # NoError THEN acc
    ELSE CategorizeLoop(cs, i + 1, CategorizeCase(acc, cs[i]))

categorizeCampaigns(cs) == CategorizeLoop(cs, 1, EmptySlots)

\* faulty variant: a fixed coupon is capped to the running total
applyCouponCampaign_Capped(total, campaign) ==
    IF campaign.type = "Fixed" THEN MathMin(campaign.amount, total)
    ELSE IF campaign.type = "Percentage"
         THEN (total * campaign.percentage) \div 100
         ELSE 0

applyCouponCampaign(total, campaign) ==
    IF campaign.type = "Fixed" THEN campaign.amount
    ELSE IF campaign.type = "Percentage"
         THEN (total * campaign.percentage) \div 100
         ELSE 0

applyOnTopCampaign(total, items, campaign) ==
    IF campaign.type = "Fixed"
    THEN MathMin(campaign.customerPoints * POINTS_TO_THB_RATIO * THB,
                 (total * POINTS_CAP_PERCENTAGE) \div 100)
    ELSE IF campaign.type = "Percentage"
         THEN (calculateOriginalTotal(FilterCategory(items, campaign.targetCategory))
                 * campaign.percentage) \div 100
         ELSE 0

applySeasonalCampaign(total, campaign) ==
    IF campaign # Undefined
    THEN MathFloorDiv(total, campaign.everyXThb) * campaign.discountYThb
    ELSE 0

\* faulty variant: the total is not clamped
ClampTotal_NoClamp(total) == total

\* Math.max(0, currentTotal)
ClampTotal(total) == MathMax(0, total)

\* faulty variant: Math.floor in place of Math.round
MakeResult_Truncating(orig, total, applied) ==
    [originalTotal |-> orig,
     finalTotal |-> (total \div Satang) * Satang,
     totalDiscount |-> Round2(orig - total),
     appliedCampaigns |-> applied]

\* faulty variant: totalDiscount is taken from the rounded finalTotal
MakeResult_FromRounded(orig, total, applied) ==
    [originalTotal |-> orig,
     finalTotal |-> Round2(total),
     totalDiscount |-> Round2(orig - Round2(total)),
     appliedCampaigns |-> applied]

\* the result record of calculateDiscount, lines 40-45
MakeResult(orig, total, applied) ==
    [originalTotal |-> orig,
     finalTotal |-> Round2(total),
     totalDiscount |-> Round2(orig - total),
     appliedCampaigns |-> applied]

Entry(cat, amount) == [category |-> cat, discountAmount |-> amount]

\* calculateDiscount as a function of its arguments: the thrown message, or
\* the returned record
calculateDiscount(items, cs) ==
    LET orig == calculateOriginalTotal(items)
        slots == categorizeCampaigns(cs)
        couponDiscount == applyCouponCampaign(orig, slots.coupon)
        t1 == orig - couponDiscount
        onTopDiscount == applyOnTopCampaign(t1, items, slots.onTop)
        t2 == t1 - onTopDiscount
        seasonalDiscount == applySeasonalCampaign(t2, slots.seasonal)
        t3 == t2 - seasonalDiscount
    IN  IF slots.error # NoError
        THEN [thrown |-> slots.error]
        ELSE [thrown |-> NoError,
              value |-> MakeResult(orig, ClampTotal(t3),
                          << Entry("Coupon", couponDiscount),
                             Entry("On Top", onTopDiscount),
                             Entry("Seasonal", seasonalDiscount) >>)]

----------------------------------------------------------------------------
(* the state machine: one call of calculateDiscount, statement by statement *)

NoResult == [originalTotal |-> 0, finalTotal |-> 0, totalDiscount |-> 0,
             appliedCampaigns |-> <<>>]

Init ==
    /\ pc = "idle"
    /\ cartItems = <<>>
    /\ campaigns = <<>>
    /\ originalTotal = 0
    /\ currentTotal = 0
    /\ appliedCampaigns = <<>>
    /\ campaignsByCategory = EmptySlots
    /\ result = NoResult
    /\ error = NoError
    /\ argv = <<>>
    /\ stdout = <<>>
    /\ exit = "running"

\* the caller invokes calculateDiscount(cartItems, campaigns)
Call ==
    /\ pc = "idle"
    /\ \E items \in SeqsUpTo(CartItem, MaxItems) :
       \E cs \in SeqsUpTo(DiscountCampaign, MaxCampaigns) :
          /\ cartItems' = items
          /\ campaigns' = cs
    /\ pc' = "total"
    /\ UNCHANGED <<originalTotal, currentTotal, appliedCampaigns,
                   campaignsByCategory, result, error>>
    /\ UNCHANGED cliVars

\* lines 7-9
ComputeOriginalTotal ==
    /\ pc = "total"
    /\ originalTotal' = calculateOriginalTotal(cartItems)
    /\ currentTotal' = originalTotal'
    /\ appliedCampaigns' = <<>>
    /\ pc' = "categorize"
    /\ UNCHANGED <<cartItems, campaigns, campaignsByCategory, result, error>>
    /\ UNCHANGED cliVars

\* faulty variant: the duplicate is reported but the call goes on
Categorize_Continue ==
    /\ pc = "categorize"
    /\ LET slots == categorizeCampaigns(campaigns)
       IN  /\ error' = slots.error
           /\ campaignsByCategory' = [slots EXCEPT !.error = NoError]
           /\ pc' = "coupon"
    /\ UNCHANGED <<cartItems, campaigns, originalTotal, currentTotal,
                   appliedCampaigns, result>>
    /\ UNCHANGED cliVars

\* line 10; a throw ends the call
Categorize ==
    /\ pc = "categorize"
    /\ LET slots == categorizeCampaigns(campaigns)
       IN  IF slots.error # NoError
           THEN /\ error' = slots.error
                /\ pc' = "failed"
                /\ UNCHANGED campaignsByCategory
           ELSE /\ campaignsByCategory' = slots
                /\ pc' = "coupon"
                /\ UNCHANGED error
    /\ UNCHANGED <<cartItems, campaigns, originalTotal, currentTotal,
                   appliedCampaigns, result>>
    /\ UNCHANGED cliVars

\* lines 14-19
CouponStage ==
    /\ pc = "coupon"
    /\ LET couponDiscount == applyCouponCampaign(currentTotal, campaignsByCategory.coupon)
       IN  /\ currentTotal' = currentTotal - couponDiscount
           /\ appliedCampaigns' = Append(appliedCampaigns, Entry("Coupon", couponDiscount))
    /\ pc' = "onTop"
    /\ UNCHANGED <<cartItems, campaigns, originalTotal, campaignsByCategory,
                   result, error>>
    /\ UNCHANGED cliVars

\* faulty variant: the category filter removes the other items in place
OnTopStage_FilterInPlace ==
    /\ pc = "onTop"
    /\ LET onTopDiscount == applyOnTopCampaign(currentTotal, cartItems, campaignsByCategory.onTop)
       IN  /\ currentTotal' = currentTotal - onTopDiscount
           /\ appliedCampaigns' = Append(appliedCampaigns, Entry("On Top", onTopDiscount))
    /\ cartItems' = IF campaignsByCategory.onTop.type = "Percentage"
                    THEN FilterCategory(cartItems, campaignsByCategory.onTop.targetCategory)
                    ELSE cartItems
    /\ pc' = "seasonal"
    /\ UNCHANGED <<campaigns, originalTotal, campaignsByCategory, result, error>>
    /\ UNCHANGED cliVars

\* faulty variant: the on-top stage is given originalTotal
OnTopStage_OnOriginal ==
    /\ pc = "onTop"
    /\ LET onTopDiscount == applyOnTopCampaign(originalTotal, cartItems, campaignsByCategory.onTop)
       IN  /\ currentTotal' = currentTotal - onTopDiscount
           /\ appliedCampaigns' = Append(appliedCampaigns, Entry("On Top", onTopDiscount))
    /\ pc' = "seasonal"
    /\ UNCHANGED <<cartItems, campaigns, originalTotal, campaignsByCategory,
                   result, error>>
    /\ UNCHANGED cliVars

\* lines 22-27
OnTopStage ==
    /\ pc = "onTop"
    /\ LET onTopDiscount == applyOnTopCampaign(currentTotal, cartItems, campaignsByCategory.onTop)
       IN  /\ currentTotal' = currentTotal - onTopDiscount
           /\ appliedCampaigns' = Append(appliedCampaigns, Entry("On Top", onTopDiscount))
    /\ pc' = "seasonal"
    /\ UNCHANGED <<cartItems, campaigns, originalTotal, campaignsByCategory,
                   result, error>>
    /\ UNCHANGED cliVars

\* faulty variant: the seasonal stage is given originalTotal
SeasonalStage_OnOriginal ==
    /\ pc = "seasonal"
    /\ LET seasonalDiscount == applySeasonalCampaign(originalTotal, campaignsByCategory.seasonal)
       IN  /\ currentTotal' = currentTotal - seasonalDiscount
           /\ appliedCampaigns' = Append(appliedCampaigns, Entry("Seasonal", seasonalDiscount))
    /\ pc' = "assemble"
    /\ UNCHANGED <<cartItems, campaigns, originalTotal, campaignsByCategory,
                   result, error>>
    /\ UNCHANGED cliVars

\* faulty variant: a stage without a campaign records no entry
SeasonalStage_SkipAbsent ==
    /\ pc = "seasonal"
    /\ LET seasonalDiscount == applySeasonalCampaign(currentTotal, campaignsByCategory.seasonal)
       IN  /\ currentTotal' = currentTotal - seasonalDiscount
           /\ appliedCampaigns' =
                 IF campaignsByCategory.seasonal = Undefined THEN appliedCampaigns
                 ELSE Append(appliedCampaigns, Entry("Seasonal", seasonalDiscount))
    /\ pc' = "assemble"
    /\ UNCHANGED <<cartItems, campaigns, originalTotal, campaignsByCategory,
                   result, error>>
    /\ UNCHANGED cliVars

\* lines 30-35
SeasonalStage ==
    /\ pc = "seasonal"
    /\ LET seasonalDiscount == applySeasonalCampaign(currentTotal, campaignsByCategory.seasonal)
       IN  /\ currentTotal' = currentTotal - seasonalDiscount
           /\ appliedCampaigns' = Append(appliedCampaigns, Entry("Seasonal", seasonalDiscount))
    /\ pc' = "assemble"
    /\ UNCHANGED <<cartItems, campaigns, originalTotal, campaignsByCategory,
                   result, error>>
    /\ UNCHANGED cliVars

\* faulty variant: totalDiscount is taken before the clamp
Assemble_DiscountBeforeClamp ==
    /\ pc = "assemble"
    /\ currentTotal' = ClampTotal(currentTotal)
    /\ result' = [MakeResult(originalTotal, currentTotal', appliedCampaigns)
                    EXCEPT !.totalDiscount = Round2(originalTotal - currentTotal)]
    /\ pc' = "done"
    /\ UNCHANGED <<cartItems, campaigns, originalTotal, appliedCampaigns,
                   campaignsByCategory, error>>
    /\ UNCHANGED cliVars

\* lines 38-47
Assemble ==
    /\ pc = "assemble"
    /\ currentTotal' = ClampTotal(currentTotal)
    /\ result' = MakeResult(originalTotal, currentTotal', appliedCampaigns)
    /\ pc' = "done"
    /\ UNCHANGED <<cartItems, campaigns, originalTotal, appliedCampaigns,
                   campaignsByCategory, error>>
    /\ UNCHANGED cliVars

\* the call is over (returned or threw); its locals are gone
Finish ==
    /\ pc \in {"done", "failed"}
    /\ pc' = "idle"
    /\ cartItems' = <<>>
    /\ campaigns' = <<>>
    /\ originalTotal' = 0
    /\ currentTotal' = 0
    /\ appliedCampaigns' = <<>>
    /\ campaignsByCategory' = EmptySlots
    /\ result' = NoResult
    /\ error' = NoError
    /\ UNCHANGED cliVars

Next ==
    \/ Call
    \/ ComputeOriginalTotal
    \/ Categorize
    \/ CouponStage
    \/ OnTopStage
    \/ SeasonalStage
    \/ Assemble
    \/ Finish

Spec == Init /\ [][Next]_vars

----------------------------------------------------------------------------
(* index.ts: the command-line process, main() around the engine *)

\* command-line arguments, as strings of characters
ArgHelp == <<"-", "-", "h", "e", "l", "p">>

ArgH == <<"-", "h">>

ArgJson == <<"c", ".", "j", "s", "o", "n">>

ArgTxt == <<"c", ".", "t", "x", "t">>

ArgEmpty == <<>>

Arguments == {ArgHelp, ArgH, ArgJson, ArgTxt, ArgEmpty}

\* process.argv.slice(2): no argument or one
ArgLists == {<<>>} \cup {<<a>> : a \in Arguments}

JsonSuffix == <<".", "j", "s", "o", "n">>

\* String.prototype.endsWith
EndsWith(str, suffix) ==
    /\ Len(str) >= Len(suffix)
    /\ SubSeq(str, Len(str) - Len(suffix) + 1, Len(str)) = suffix

\* !filepath: process.argv.slice(2).at(0) is undefined or the empty string
NoFilePath(args) == Len(args) = 0 \/ args[1] = <<>>

\* an item the schema rejects
NegativePriceItem == [price |-> -1 * Satang, category |-> "Clothing"]

\* what Bun.file(filepath).json() can yield: no such file, no JSON, a document
Files ==
    {[kind |-> "missing"], [kind |-> "invalid json"]}
    \cup [kind : {"json"},
          items : SeqsUpTo(CartItem \cup {NegativePriceItem}, MaxItems),
          discounts : SeqsUpTo(DiscountCampaign, MaxCampaigns)]

\* CartItemSchema
CartItemAccepts(it) ==
    /\ it.price >= 0
    /\ it.category \in ItemCategory
    /\ "quantity" \in DOMAIN it => it.quantity >= 1

\* CartSchema: items valid and at least one, and the three refinements
CartSchemaAccepts(doc) ==
    /\ \A i \in DOMAIN doc.items : CartItemAccepts(doc.items[i])
    /\ Len(doc.items) >= 1
    /\ \A cat \in {"Coupon", "On Top", "Seasonal"} :
          Cardinality({i \in DOMAIN doc.discounts : doc.discounts[i].category = cat}) <= 1

\* CartSchema.parse of an accepted document: quantity defaults to 1
CartSchemaParse(doc) ==
    [items |-> [i \in DOMAIN doc.items |->
                  IF "quantity" \in DOMAIN doc.items[i] THEN doc.items[i]
                  ELSE [price |-> doc.items[i].price,
                        category |-> doc.items[i].category,
                        quantity |-> 1]],
     discounts |-> doc.discounts]

\* the process is started with some arguments
InitCli ==
    /\ pc = "main"
    /\ cartItems = <<>>
    /\ campaigns = <<>>
    /\ originalTotal = 0
    /\ currentTotal = 0
    /\ appliedCampaigns = <<>>
    /\ campaignsByCategory = EmptySlots
    /\ result = NoResult
    /\ error = NoError
    /\ argv \in ArgLists
    /\ stdout = <<>>
    /\ exit = "running"

\* index.ts lines 5-8
MainCheckPath ==
    /\ pc = "main"
    /\ IF NoFilePath(argv) \/ ~EndsWith(argv[1], JsonSuffix)
       THEN /\ error' = "Expect json file path"
            /\ exit' = "nonzero"
            /\ pc' = "exited"
       ELSE /\ pc' = "read"
            /\ UNCHANGED <<error, exit>>
    /\ UNCHANGED <<cartItems, campaigns, originalTotal, currentTotal,
                   appliedCampaigns, campaignsByCategory, result, argv, stdout>>

\* index.ts lines 9-10: read, parse, and enter calculateDiscount
MainReadCart ==
    /\ pc = "read"
    /\ \E f \in Files :
          IF f.kind = "json" /\ CartSchemaAccepts(f)
          THEN /\ cartItems' = CartSchemaParse(f).items
               /\ campaigns' = CartSchemaParse(f).discounts
               /\ pc' = "total"
               /\ UNCHANGED <<error, exit>>
          ELSE /\ error' = (IF f.kind = "missing" THEN "ENOENT"
                            ELSE IF f.kind = "invalid json" THEN "SyntaxError"
                            ELSE "ZodError")
               /\ exit' = "nonzero"
               /\ pc' = "exited"
               /\ UNCHANGED <<cartItems, campaigns>>
    /\ UNCHANGED <<originalTotal, currentTotal, appliedCampaigns,
                   campaignsByCategory, result, argv, stdout>>

\* index.ts line 11: console.log(result), then main() resolves
MainLog ==
    /\ pc = "done"
    /\ stdout' = Append(stdout, [value |-> result])
    /\ exit' = "zero"
    /\ pc' = "exited"
    /\ UNCHANGED <<cartItems, campaigns, originalTotal, currentTotal,
                   appliedCampaigns, campaignsByCategory, result, error, argv>>

\* index.ts line 14: calculateDiscount threw, await main() rejects
MainReject ==
    /\ pc = "failed"
    /\ exit' = "nonzero"
    /\ pc' = "exited"
    /\ UNCHANGED <<cartItems, campaigns, originalTotal, currentTotal,
                   appliedCampaigns, campaignsByCategory, result, error,
                   argv, stdout>>

NextCli ==
    \/ MainCheckPath
    \/ MainReadCart
    \/ ComputeOriginalTotal
    \/ Categorize
    \/ CouponStage
    \/ OnTopStage
    \/ SeasonalStage
    \/ Assemble
    \/ MainLog
    \/ MainReject

SpecCli == InitCli /\ [][NextCli]_vars

----------------------------------------------------------------------------
(* sanity of the fixed-point representation *)

\* every quotient the code forms is exact in model units
ExactArithmetic ==
    /\ pc = "coupon" /\ campaignsByCategory.coupon.type = "Percentage"
          => (currentTotal * campaignsByCategory.coupon.percentage) % 100 = 0
    /\ pc = "onTop" /\ campaignsByCategory.onTop.type = "Fixed"
          => (currentTotal * POINTS_CAP_PERCENTAGE) % 100 = 0
    /\ pc = "onTop" /\ campaignsByCategory.onTop.type = "Percentage"
          => (calculateOriginalTotal(FilterCategory(cartItems,
                  campaignsByCategory.onTop.targetCategory))
               * campaignsByCategory.onTop.percentage) % 100 = 0

----------------------------------------------------------------------------
(* vocabulary of the properties *)

Returned == pc = "done"

Threw == pc = "failed"

\* the categorisation step of the current call is over
Categorized == pc \in {"coupon", "onTop", "seasonal", "assemble", "done", "failed"}

CategoriesOf(cs) == {cs[i].category : i \in 1..Len(cs)}

CountOf(cs, cat) == Cardinality({i \in 1..Len(cs) : cs[i].category = cat})

DuplicatedCategories(cs) == {cat \in CategoriesOf(cs) : CountOf(cs, cat) > 1}

AtMostOnePerCategory(cs) == DuplicatedCategories(cs) = {}

\* the category a thrown message names
NamedCategory(msg) ==
    CASE msg = "Can only use one Coupon" -> "Coupon"
      [] msg = "Can only use one On-top discount" -> "On Top"
      [] msg = "Can only use one Seasonal discount" -> "Seasonal"
      [] OTHER -> "none"

Permutations(s) ==
    {[i \in 1..Len(s) |-> s[f[i]]] :
        f \in {g \in [1..Len(s) -> 1..Len(s)] :
                  \A i, j \in 1..Len(s) : g[i] = g[j] => i = j}}

\* what the current call handed to its caller
Outcome ==
    IF Threw THEN [thrown |-> error]
    ELSE [thrown |-> NoError, value |-> result]

AmountOf(i) == appliedCampaigns[i].discountAmount

StageSum == AmountOf(1) + AmountOf(2) + AmountOf(3)

----------------------------------------------------------------------------
(* C1 - C10 *)

\* C1: whenever some category occurs more than once in the campaign list,
\* the call fails with the duplicate-category error naming a duplicated
\* category.
C1_DuplicateCategoryFails ==
    (Categorized /\ DuplicatedCategories(campaigns) # {})
        => (Threw /\ NamedCategory(error) \in DuplicatedCategories(campaigns))

\* C2: a call whose campaign list holds at most one campaign per category
\* never raises an error.
C2_ValidInputNeverFails ==
    AtMostOnePerCategory(campaigns) => ~Threw

\* C3: with at most one campaign per category, every permutation of the
\* campaign list gives the same outcome (error or result record) as the
\* list that was passed.
C3_InputOrderIrrelevant ==
    ((Returned \/ Threw) /\ AtMostOnePerCategory(campaigns))
        => \A cs \in Permutations(campaigns) :
              calculateDiscount(cartItems, cs) = Outcome

\* C4: every returned result has finalTotal >= 0, also when the stage
\* amounts add up to more than originalTotal.
C4_FinalTotalNonNegative ==
    Returned => result.finalTotal >= 0

\* C4 witness: a returned result whose stage amounts exceed originalTotal.
C4_Witness_ClampBites ==
    /\ Returned
    /\ StageSum > originalTotal
    /\ originalTotal > 0
    /\ result.finalTotal = 0

\* C5: every returned result for a campaign list with at most one campaign
\* per category has totalDiscount >= 0 and finalTotal <= originalTotal.
C5_TotalDiscountNonNegative ==
    (Returned /\ AtMostOnePerCategory(campaigns))
        => (result.totalDiscount >= 0 /\ result.finalTotal <= result.originalTotal)

\* C6: each recorded stage amount is >= 0 for valid inputs, also when an
\* earlier stage has driven the running total below zero.
C6_StageAmountsNonNegative ==
    AtMostOnePerCategory(campaigns)
        => \A i \in 1..Len(appliedCampaigns) : AmountOf(i) >= 0

\* C7: a returned result has exactly three entries, categories Coupon,
\* On Top, Seasonal in this order, and the entry of a category without a
\* supplied campaign has amount 0.
C7_ThreeEntriesInOrder ==
    Returned =>
        /\ Len(result.appliedCampaigns) = 3
        /\ \A i \in 1..3 :
              /\ i \in DOMAIN result.appliedCampaigns
              /\ result.appliedCampaigns[i].category = CampaignCategory[i]
              /\ (CampaignCategory[i] \notin CategoriesOf(campaigns)
                     => result.appliedCampaigns[i].discountAmount = 0)

\* C7 witness: a result for a list given out of stage order with one
\* category missing and the other two discounts taking effect.
C7_Witness_UnorderedPartial ==
    /\ Returned
    /\ Len(campaigns) = 2
    /\ campaigns[1].category = "Seasonal"
    /\ campaigns[2].category = "Coupon"
    /\ Len(result.appliedCampaigns) = 3
    /\ result.appliedCampaigns[1].discountAmount > 0
    /\ result.appliedCampaigns[3].discountAmount > 0

\* C8: finalTotal = round2(max(0, originalTotal - coupon - onTop -
\* seasonal)) over the amounts recorded in appliedCampaigns.
C8_FinalTotalFormula ==
    Returned =>
        /\ Len(result.appliedCampaigns) = 3
        /\ result.finalTotal =
              Round2(MathMax(0, result.originalTotal
                                  - result.appliedCampaigns[1].discountAmount
                                  - result.appliedCampaigns[2].discountAmount
                                  - result.appliedCampaigns[3].discountAmount))

\* C8 witness: all three stages took something, the clamp did not bite and
\* the unrounded total is not a whole satang.
C8_Witness_AllStagesRounded ==
    /\ Returned
    /\ \A i \in 1..3 : AmountOf(i) > 0
    /\ originalTotal - StageSum > 0
    /\ (originalTotal - StageSum) % Satang # 0

\* C9 (as stated): totalDiscount = round2(originalTotal - finalTotal) over
\* the reported finalTotal, so finalTotal + totalDiscount = round2(originalTotal).
C9_Original_FromReportedFinal ==
    Returned =>
        /\ result.totalDiscount = Round2(result.originalTotal - result.finalTotal)
        /\ result.finalTotal + result.totalDiscount = Round2(result.originalTotal)

\* C9 (amended): totalDiscount = round2(originalTotal - T), T the clamped,
\* unrounded running total; when originalTotal is in whole satangs,
\* finalTotal + totalDiscount is originalTotal, except one satang more
\* exactly when T ends on half a satang.
C9_TotalDiscountFromUnrounded ==
    Returned =>
        LET T == MathMax(0, originalTotal - StageSum)
        IN  /\ result.totalDiscount = Round2(result.originalTotal - T)
            /\ result.originalTotal % Satang = 0
                  => result.finalTotal + result.totalDiscount =
                        IF T % Satang = Satang \div 2
                        THEN result.originalTotal + Satang
                        ELSE result.originalTotal

\* C9 witness: a result whose unrounded running total ends on half a satang.
C9_Witness_HalfSatang ==
    /\ Returned
    /\ originalTotal % Satang = 0
    /\ originalTotal - StageSum > 0
    /\ (originalTotal - StageSum) % Satang = Satang \div 2
    /\ result.finalTotal + result.totalDiscount = result.originalTotal + Satang

\* price x quantity summed over the positions of the list, absent quantity = 1
RECURSIVE SumOverPositions(_, _)
SumOverPositions(items, S) ==
    IF S = {} THEN 0
    ELSE LET i == CHOOSE j \in S : TRUE
             q == IF "quantity" \in DOMAIN items[i] THEN items[i].quantity ELSE 1
         IN  (items[i].price * q) + SumOverPositions(items, S \ {i})

\* C10: originalTotal is the sum of price x quantity over all items, an
\* absent quantity counting as 1, unrounded; the empty list gives 0.
C10_OriginalTotalIsSum ==
    /\ (pc \notin {"idle", "total"})
          => originalTotal = SumOverPositions(cartItems, DOMAIN cartItems)
    /\ Returned
          => result.originalTotal = SumOverPositions(cartItems, DOMAIN cartItems)
    /\ (pc \notin {"idle", "total"} /\ cartItems = <<>>) => originalTotal = 0

\* C10 witness: a result for two priced items, one without a quantity and
\* one with quantity 2.
C10_Witness_MixedQuantities ==
    /\ Returned
    /\ Len(cartItems) = 2
    /\ "quantity" \notin DOMAIN cartItems[1]
    /\ "quantity" \in DOMAIN cartItems[2]
    /\ cartItems[2].quantity = 2
    /\ cartItems[1].price > 0
    /\ cartItems[2].price > 0
    /\ result.originalTotal = cartItems[1].price + (2 * cartItems[2].price)

----------------------------------------------------------------------------
(* C11 - C20 *)

\* the campaigns of category cat in the list that was passed
Supplied(cat) == {campaigns[i] : i \in {j \in 1..Len(campaigns) : campaigns[j].category = cat}}

\* the on-top stage of the current call is over
OnTopDone == pc \in {"seasonal", "assemble", "done"}

\* the seasonal stage of the current call is over
SeasonalDone == pc \in {"assemble", "done"}

\* the running total the on-top stage was entered with
TotalAfterCoupon == originalTotal - AmountOf(1)

\* the running total the seasonal stage was entered with
TotalAfterOnTop == originalTotal - AmountOf(1) - AmountOf(2)

\* C11: for an empty item list or items all priced 0 and a campaign list
\* with at most one campaign per category, the returned originalTotal,
\* finalTotal and totalDiscount are all 0.
C11_ZeroCartAllZero ==
    (/\ Returned
     /\ AtMostOnePerCategory(campaigns)
     /\ \A i \in 1..Len(cartItems) : cartItems[i].price = 0)
        => (/\ result.originalTotal = 0
            /\ result.finalTotal = 0
            /\ result.totalDiscount = 0)

\* C12: with an On Top points campaign the on-top amount is
\* min(customerPoints x 1 THB, 20% of the running total after the coupon
\* stage): at most either bound and equal to one of them.
C12_PointsCappedOnPostCoupon ==
    (OnTopDone /\ AtMostOnePerCategory(campaigns)) =>
        \A c \in Supplied("On Top") :
            c.type = "Fixed" =>
                /\ AmountOf(2) <= c.customerPoints * THB
                /\ 100 * AmountOf(2) <= 20 * TotalAfterCoupon
                /\ \/ AmountOf(2) = c.customerPoints * THB
                   \/ 100 * AmountOf(2) = 20 * TotalAfterCoupon

\* C12 witness: a result where a coupon took something and the points
\* amount is the 20% cap of the post-coupon total, below the points.
C12_Witness_CapAfterCoupon ==
    /\ Returned
    /\ campaignsByCategory.onTop.type = "Fixed"
    /\ AmountOf(1) > 0
    /\ AmountOf(2) > 0
    /\ 5 * AmountOf(2) = TotalAfterCoupon
    /\ AmountOf(2) < campaignsByCategory.onTop.customerPoints * THB
    /\ 5 * AmountOf(2) # originalTotal

\* the positions of the items of category cat
PositionsOf(items, cat) == {i \in DOMAIN items : items[i].category = cat}

\* C13: with an On Top category campaign the on-top amount is
\* percentage/100 of the sum of price x quantity over the items of
\* targetCategory; it equals the amount for the cart with all other items
\* removed and no coupon, and is 0 when no item matches.
C13_CategoryPercentOfMatching ==
    (OnTopDone /\ AtMostOnePerCategory(campaigns)) =>
        \A c \in Supplied("On Top") :
            c.type = "Percentage" =>
                /\ 100 * AmountOf(2) =
                      c.percentage * SumOverPositions(cartItems,
                                        PositionsOf(cartItems, c.targetCategory))
                /\ AmountOf(2) =
                      calculateDiscount(
                          SelectSeq(cartItems, LAMBDA it : it.category = c.targetCategory),
                          <<c>>).value.appliedCampaigns[2].discountAmount
                /\ PositionsOf(cartItems, c.targetCategory) = {} => AmountOf(2) = 0

\* C13 witness: a result for a cart with a priced matching item and a priced
\* item of another category, after a coupon took something.
C13_Witness_MixedCart ==
    /\ Returned
    /\ campaignsByCategory.onTop.type = "Percentage"
    /\ AmountOf(1) > 0
    /\ AmountOf(2) > 0
    /\ \E i, j \in DOMAIN cartItems :
          /\ cartItems[i].category = campaignsByCategory.onTop.targetCategory
          /\ cartItems[j].category # campaignsByCategory.onTop.targetCategory
          /\ cartItems[i].price > 0
          /\ cartItems[j].price > 0

\* C14: when the running total entering the seasonal stage is below
\* everyXThb (also when it is below zero), the seasonal amount is 0 and the
\* running total leaves the stage unchanged.
C14_BelowThresholdNoDiscount ==
    (pc = "assemble" /\ AtMostOnePerCategory(campaigns)) =>
        \A c \in Supplied("Seasonal") :
            TotalAfterOnTop < c.everyXThb =>
                (AmountOf(3) = 0 /\ currentTotal = TotalAfterOnTop)

\* what a usage message on standard output would be
UsageLine == [text |-> "usage"]

\* C15: started with no argument, --help or -h, the process prints usage,
\* never enters calculateDiscount and ends with status zero.
C15_HelpIsNotAFailure ==
    (pc = "exited" /\ (argv = <<>> \/ argv \in {<<ArgHelp>>, <<ArgH>>}))
        => (/\ exit = "zero"
            /\ stdout = <<UsageLine>>
            /\ result = NoResult)

\* C16: with a Seasonal campaign the seasonal amount is
\* floor(T / everyXThb) x discountYThb, T the running total after the
\* coupon and on-top stages; around T it is a non-decreasing step function
\* that changes only at multiples of everyXThb.
C16_SeasonalStepOnRunningTotal ==
    (SeasonalDone /\ AtMostOnePerCategory(campaigns)) =>
        \A c \in Supplied("Seasonal") :
            LET T == TotalAfterOnTop
                step(t) == applySeasonalCampaign(t, c)
                k == AmountOf(3) \div c.discountYThb
            IN  /\ AmountOf(3) = k * c.discountYThb
                /\ k * c.everyXThb <= T
                /\ T < (k + 1) * c.everyXThb
                /\ step(T - 1) <= step(T)
                /\ step(T) <= step(T + 1)
                /\ T % c.everyXThb # 0 => step(T - 1) = step(T)
                /\ (T + 1) % c.everyXThb # 0 => step(T + 1) = step(T)

\* C16 witness: a result where coupon, on-top and seasonal stage all took
\* something and the seasonal amount differs from the step of originalTotal.
C16_Witness_StepAfterBothStages ==
    /\ Returned
    /\ campaignsByCategory.seasonal # Undefined
    /\ AmountOf(1) > 0
    /\ AmountOf(2) > 0
    /\ AmountOf(3) > 0
    /\ AmountOf(3) # (originalTotal \div campaignsByCategory.seasonal.everyXThb)
                        * campaignsByCategory.seasonal.discountYThb

\* the coupon stage of the current call is over
CouponDone == pc \in {"onTop", "seasonal", "assemble", "done"}

\* C17: the coupon stage is the first stage and works on originalTotal: a
\* Fixed coupon takes exactly its amount, uncapped; a Percentage coupon takes
\* originalTotal x percentage / 100; without a coupon the amount is 0.
C17_CouponOnOriginalTotal ==
    CouponDone =>
        /\ appliedCampaigns[1].category = "Coupon"
        /\ pc = "onTop" => (Len(appliedCampaigns) = 1
                            /\ currentTotal = originalTotal - AmountOf(1))
        /\ \A c \in Supplied("Coupon") :
              /\ c.type = "Fixed" => AmountOf(1) = c.amount
              /\ c.type = "Percentage" => 100 * AmountOf(1) = originalTotal * c.percentage
        /\ Supplied("Coupon") = {} => AmountOf(1) = 0

\* C17 witness: a result for a priced cart with a fixed coupon above the
\* total, recorded in full and absorbed by the clamp.
C17_Witness_CouponAboveTotal ==
    /\ Returned
    /\ campaignsByCategory.coupon.type = "Fixed"
    /\ originalTotal > 0
    /\ AmountOf(1) = campaignsByCategory.coupon.amount
    /\ AmountOf(1) > originalTotal
    /\ currentTotal = 0

\* C18: when category partitioning fails the call ends there: no stage has
\* run, no entry is recorded and no result record exists.
C18_FailureLeavesNothing ==
    error # NoError =>
        /\ pc \in {"failed", "exited"}
        /\ appliedCampaigns = <<>>
        /\ currentTotal = originalTotal
        /\ campaignsByCategory = EmptySlots
        /\ result = NoResult

\* C18 witness: a failed call on a priced cart with two coupons.
C18_Witness_FailedCall ==
    /\ Threw
    /\ originalTotal > 0
    /\ CountOf(campaigns, "Coupon") = 2
    /\ error = "Can only use one Coupon"
    /\ result = NoResult

\* C19 (as stated): if the stage amounts do not exceed originalTotal,
\* totalDiscount is their sum rounded to 2 decimals; otherwise the entries
\* are the unclamped amounts, their sum exceeds totalDiscount and
\* totalDiscount equals originalTotal.
C19_Original_ClampedEqualsOriginal ==
    Returned =>
        IF StageSum <= originalTotal
        THEN result.totalDiscount = Round2(StageSum)
        ELSE /\ result.appliedCampaigns = appliedCampaigns
             /\ StageSum > result.totalDiscount
             /\ result.totalDiscount = result.originalTotal

\* C19 (amended): if the stage amounts do not exceed originalTotal,
\* totalDiscount is their sum rounded to 2 decimals; otherwise the entries
\* are the unclamped amounts, their sum exceeds originalTotal and
\* totalDiscount equals originalTotal rounded to 2 decimals.
C19_ClampedEqualsRoundedOriginal ==
    Returned =>
        IF StageSum <= originalTotal
        THEN result.totalDiscount = Round2(StageSum)
        ELSE /\ result.appliedCampaigns = appliedCampaigns
             /\ result.appliedCampaigns[1].discountAmount
                  + result.appliedCampaigns[2].discountAmount
                  + result.appliedCampaigns[3].discountAmount > result.originalTotal
             /\ result.totalDiscount = Round2(result.originalTotal)

\* C19 witness: a result where the clamp bites on an originalTotal that is
\* not a whole number of satangs.
C19_Witness_ClampOnFraction ==
    /\ Returned
    /\ StageSum > originalTotal
    /\ originalTotal % Satang # 0
    /\ result.totalDiscount = Round2(originalTotal)
    /\ result.totalDiscount # originalTotal

\* C20: a call leaves the lists it was given unchanged, and what it hands
\* back is a function of its two arguments alone, whatever calls came before.
C20_Pure ==
    /\ [](Returned \/ Threw => Outcome = calculateDiscount(cartItems, campaigns))
    /\ [](pc = "idle" => /\ appliedCampaigns = <<>>
                         /\ campaignsByCategory = EmptySlots
                         /\ currentTotal = 0
                         /\ originalTotal = 0)
    /\ [][(pc # "idle" /\ pc' # "idle")
            => (cartItems' = cartItems /\ campaigns' = campaigns)]_vars

\* C20 witness: a returned result for a non-empty cart and campaign list
\* that took a discount.
C20_Witness_ReturnedCall ==
    /\ Returned
    /\ Len(cartItems) > 0
    /\ Len(campaigns) > 0
    /\ result.totalDiscount > 0
    /\ Outcome = calculateDiscount(cartItems, campaigns)

====
